---------------------------- MODULE Spec2Model ----------------------------
(***************************************************************************)
(* Account management form application (src/main_app.py): the accounts     *)
(* table, the login / create-account / security-question / reset-PIN /     *)
(* main-menu windows and the button handlers that move between them.       *)
(*                                                                         *)
(* Text typed into an Entry widget is a sequence of one-character strings, *)
(* so that str.strip(), str.isdigit() and len() are computed as Python     *)
(* computes them.  The character "SUP2" stands for U+00B2 (superscript     *)
(* two), for which str.isdigit() is True although it is not in 0-9.        *)
(* Combobox values are kept as whole strings: the comboboxes are readonly, *)
(* so their value is always one of the listed constants, none of which has *)
(* surrounding whitespace or is empty (strip() leaves them as they are).   *)
(***************************************************************************)
EXTENDS Integers, Sequences, FiniteSets, TLC

VARIABLES
    accounts,         \* rows of the accounts table, in insertion (rowid) order
    login_withdrawn,  \* LoginWindow is hidden (withdraw) / shown (deiconify)
    window,           \* the open child window: [kind, username]
    running,          \* FALSE once exit_program has run
    msg,              \* text of the messagebox the last handler showed ("" = none)
    reset_log         \* history: per username, the digest its last successful
                      \* reset replaced and the PIN it set (NoReset before any)

vars == <<accounts, login_withdrawn, window, running, msg, reset_log>>

---------------------------------------------------------------------------
(* Bounds of the model *)

\* cap on the number of rows TLC lets the table grow to
MaxAccounts == 2

---------------------------------------------------------------------------
(* Program constants *)

PLACEHOLDER == "-- Select --"

SECURITY_QUESTIONS ==
    { "-- Select --", "What is your mother's maiden name?",
      "What city were you born in?", "What is the name of your first pet?",
      "What is your favorite color?",
      "What is the name of your elementary school?" }

ACCOUNT_TYPES == { "-- Select --", "User", "Vendor" }

MSG_FILL_ALL      == "Please fill in all fields."
MSG_PIN_FORMAT    == "PIN must be a 4-digit number."
MSG_PIN_MISMATCH  == "PINs do not match."
MSG_DUPLICATE     == "Username already exists. Please choose another one."
MSG_CREATED       == "Account created successfully. You can now login."
MSG_RESET_BOTH    == "Please enter both new PIN and confirm PIN."
MSG_RESET_OK      == "PIN reset successfully."
MSG_LOGIN_BOTH    == "Please enter both username and PIN."
MSG_LOGIN_OK      == "Login successful!"
MSG_LOGIN_INVALID == "Invalid username or PIN."
MSG_ENTER_USER    == "Please enter your username."
MSG_NOT_FOUND     == "Username not found."
MSG_ANSWER_OK     == "Security answer correct. You can now reset your PIN."
MSG_ANSWER_WRONG  == "Incorrect answer to security question."
\* the traceback Tk prints when a callback raises (fetchone() is None)
MSG_TYPE_ERROR    == "TypeError: 'NoneType' object is not subscriptable"
NO_MSG            == ""

---------------------------------------------------------------------------
(* Python string primitives *)

\* characters str.strip() removes
Whitespace == { " " }

AsciiDigits == { "0", "1", "2", "3", "4", "5", "6", "7", "8", "9" }

\* characters outside 0-9 for which str.isdigit() is True (U+00B2)
OtherDigits == { "SUP2" }

RECURSIVE lstrip(_)
lstrip(s) ==
    IF s = <<>> THEN s
    ELSE IF Head(s) \in Whitespace THEN lstrip(Tail(s)) ELSE s

RECURSIVE rstrip(_)
rstrip(s) ==
    IF s = <<>> THEN s
    ELSE IF s[Len(s)] \in Whitespace THEN rstrip(SubSeq(s, 1, Len(s) - 1)) ELSE s

\* str.strip()
strip(s) == rstrip(lstrip(s))

\* str.isdigit(): non-empty and every character has the Unicode digit property
isdigit(s) ==
    /\ Len(s) > 0
    /\ \A i \in 1..Len(s) : s[i] \in AsciiDigits \cup OtherDigits

\* the format ^[0-9]{4}$ of a PIN string
MatchesPinRegex(s) ==
    /\ Len(s) = 4
    /\ \A i \in 1..4 : s[i] \in AsciiDigits

---------------------------------------------------------------------------
(* Text the model types into the entry widgets *)

S_empty   == << >>
S_blank   == << " " >>
S_alice   == << "a", "l", "i", "c", "e" >>
S_alice_sp == << "a", "l", "i", "c", "e", " " >>
S_bob     == << "b", "o", "b" >>
S_Al      == << "A", "l" >>
S_Po      == << "P", "o" >>
S_Main    == << "1", " ", "M", "a", "i", "n" >>
S_Blue    == << "B", "l", "u", "e" >>
S_blue    == << "b", "l", "u", "e" >>
S_Blue_sp == << "B", "l", "u", "e", " " >>
S_Reno    == << "R", "e", "n", "o" >>
S_1111    == << "1", "1", "1", "1" >>
S_2222    == << "2", "2", "2", "2" >>
S_2222_sp == << "2", "2", "2", "2", " " >>
S_12a4    == << "1", "2", "a", "4" >>
S_123     == << "1", "2", "3" >>
S_22222   == << "2", "2", "2", "2", "2" >>
S_sup2x4  == << "SUP2", "SUP2", "SUP2", "SUP2" >>

UserInputs    == { S_empty, S_alice, S_alice_sp, S_bob }
PinInputs     == { S_empty, S_1111, S_2222, S_2222_sp, S_12a4, S_123, S_22222, S_sup2x4 }
AnswerInputs  == { S_empty, S_Blue, S_blue, S_Blue_sp, S_Reno }

---------------------------------------------------------------------------
(* hash_pin: hashlib.sha256(pin.encode()).hexdigest(), tabulated for the    *)
(* PIN strings of the model (the 64 hexadecimal characters Python returns) *)

\* sha256(''.encode()).hexdigest()
D_empty ==
    <<"e","3","b","0","c","4","4","2","9","8","f","c","1","c","1","4",
      "9","a","f","b","f","4","c","8","9","9","6","f","b","9","2","4",
      "2","7","a","e","4","1","e","4","6","4","9","b","9","3","4","c",
      "a","4","9","5","9","9","1","b","7","8","5","2","b","8","5","5">>
\* sha256('1111'.encode()).hexdigest()
D_1111 ==
    <<"0","f","f","e","1","a","b","d","1","a","0","8","2","1","5","3",
      "5","3","c","2","3","3","d","6","e","0","0","9","6","1","3","e",
      "9","5","e","e","c","4","2","5","3","8","3","2","a","7","6","1",
      "a","f","2","8","f","f","3","7","a","c","5","a","1","5","0","c">>
\* sha256('2222'.encode()).hexdigest()
D_2222 ==
    <<"e","d","e","e","2","9","f","8","8","2","5","4","3","b","9","5",
      "6","6","2","0","b","2","6","d","0","e","e","0","e","7","e","9",
      "5","0","3","9","9","b","1","c","4","2","2","2","f","5","d","e",
      "0","5","e","0","6","4","2","5","b","4","c","9","9","5","e","9">>
\* sha256('2222 '.encode()).hexdigest()
D_2222_sp ==
    <<"c","2","a","f","7","1","8","7","5","c","3","b","a","3","4","a",
      "e","f","f","e","4","4","e","3","f","9","a","b","b","1","4","3",
      "8","8","9","2","6","9","f","4","b","8","b","9","8","1","9","e",
      "d","8","f","f","2","0","6","0","5","4","d","5","5","1","7","9">>
\* sha256('12a4'.encode()).hexdigest()
D_12a4 ==
    <<"b","7","2","1","a","a","4","e","5","8","3","e","3","e","6","2",
      "a","9","8","1","f","9","d","9","e","f","f","c","3","9","0","5",
      "5","a","4","f","f","f","0","9","f","d","c","b","a","7","2","8",
      "f","3","c","5","a","2","8","d","8","2","7","8","5","d","b","4">>
\* sha256('123'.encode()).hexdigest()
D_123 ==
    <<"a","6","6","5","a","4","5","9","2","0","4","2","2","f","9","d",
      "4","1","7","e","4","8","6","7","e","f","d","c","4","f","b","8",
      "a","0","4","a","1","f","3","f","f","f","1","f","a","0","7","e",
      "9","9","8","e","8","6","f","7","f","7","a","2","7","a","e","3">>
\* sha256('22222'.encode()).hexdigest()
D_22222 ==
    <<"c","c","3","9","9","d","7","3","9","0","3","f","0","6","e","e",
      "6","9","4","0","3","2","a","b","0","5","3","8","f","0","5","6",
      "3","4","f","f","7","e","1","c","e","5","e","8","e","5","0","a",
      "c","3","3","0","a","8","7","1","4","8","4","f","3","4","c","f">>
\* sha256('²²²²'.encode()).hexdigest()  (U+00B2 four times, UTF-8 encoded)
D_sup2x4 ==
    <<"2","b","5","d","d","e","4","d","1","5","5","3","c","8","2","a",
      "4","8","1","4","5","0","4","4","c","b","a","8","7","2","7","c",
      "2","c","1","6","9","a","b","7","0","2","b","4","7","e","2","1",
      "b","6","6","2","f","9","6","0","b","4","4","f","3","5","c","7">>

hash_pin(pin) ==
    CASE pin = S_empty   -> D_empty
      [] pin = S_1111    -> D_1111
      [] pin = S_2222    -> D_2222
      [] pin = S_2222_sp -> D_2222_sp
      [] pin = S_12a4    -> D_12a4
      [] pin = S_123     -> D_123
      [] pin = S_22222   -> D_22222
      [] pin = S_sup2x4  -> D_sup2x4

---------------------------------------------------------------------------
(* The accounts table *)

\* no child window is open
NoWindow == [kind |-> "none", username |-> S_empty, question |-> ""]

\* usernames a row can hold: what strip() leaves of a typed username
StoredUsernames == { strip(u) : u \in UserInputs } \ { S_empty }

\* reset_log entry of a username that was never reset
NoReset == [reset |-> FALSE]

\* SELECT ... FROM accounts WHERE username=?  (the rows, in rowid order)
select_where_username(username) ==
    SelectSeq(accounts, LAMBDA r : r.username = username)

\* SELECT * FROM accounts WHERE username=? AND pin=?
select_where_username_pin(username, pin) ==
    SelectSeq(accounts, LAMBDA r : r.username = username /\ r.pin = pin)

\* an UPDATE that forgets its WHERE clause
update_pin_all_rows(pin, username) ==
    [i \in 1..Len(accounts) |-> [accounts[i] EXCEPT !.pin = pin]]

\* UPDATE accounts SET pin=? WHERE username=?  (every matching row)
update_pin(pin, username) ==
    [i \in 1..Len(accounts) |->
        IF accounts[i].username = username
        THEN [accounts[i] EXCEPT !.pin = pin]
        ELSE accounts[i]]

\* Python truth value of a str read from an Entry / of a Combobox value
truthy(s) == s # <<>>
truthy_choice(c) == c # ""

---------------------------------------------------------------------------
(* Create-account forms the model submits *)

Q_CITY  == "What city were you born in?"

\* (PIN, Confirm PIN) as typed, at Create Account and at Reset PIN
PinPairs ==
    { <<S_empty, S_empty>>, <<S_1111, S_empty>>, <<S_1111, S_1111>>,
      <<S_2222, S_2222>>, <<S_2222_sp, S_2222>>, <<S_1111, S_2222>>,
      <<S_12a4, S_1111>>, <<S_123, S_1111>>, <<S_22222, S_2222>>,
      <<S_123, S_123>>, <<S_sup2x4, S_sup2x4>> }

\* the security answer the model types for a username
AnswerOf(username_entry) ==
    IF username_entry = S_bob THEN S_Reno ELSE S_Blue_sp

BaseForms ==
    { [ first_name        |-> S_Al,
        last_name         |-> S_Po,
        address_line1     |-> S_Main,
        address_line2     |-> S_empty,
        account_type      |-> "User",
        username          |-> u,
        pin               |-> pc[1],
        confirm_pin       |-> pc[2],
        security_question |-> Q_CITY,
        security_answer   |-> AnswerOf(u) ] :
      u \in UserInputs, pc \in PinPairs }

\* a valid form for alice, from which one field at a time is varied
AliceForm ==
    [ first_name        |-> S_Al,
      last_name         |-> S_Po,
      address_line1     |-> S_Main,
      address_line2     |-> S_empty,
      account_type      |-> "User",
      username          |-> S_alice,
      pin               |-> S_1111,
      confirm_pin       |-> S_1111,
      security_question |-> Q_CITY,
      security_answer   |-> S_Blue_sp ]

FieldVariants ==
    { [AliceForm EXCEPT !.first_name = S_empty],
      [AliceForm EXCEPT !.last_name = S_blank],
      [AliceForm EXCEPT !.address_line1 = S_empty],
      [AliceForm EXCEPT !.account_type = PLACEHOLDER],
      [AliceForm EXCEPT !.security_question = PLACEHOLDER],
      [AliceForm EXCEPT !.security_answer = S_blank] }

VariantForms ==
    { [f EXCEPT !.pin = pc[1], !.confirm_pin = pc[2]] :
        f \in FieldVariants,
        pc \in { <<S_1111, S_1111>>, <<S_123, S_1111>>, <<S_1111, S_2222>> } }

CreateForms == BaseForms \cup VariantForms

---------------------------------------------------------------------------
(* CreateAccountWindow.create_account_button_click *)

\* a required-field test that leaves last_name out
all_fields_filled_no_last_name(first_name, last_name, address_line1, account_type, username, pin, confirm_pin, security_question, security_answer) ==
    /\ truthy(first_name) /\ truthy(address_line1)
    /\ truthy_choice(account_type) /\ truthy(username) /\ truthy(pin)
    /\ truthy(confirm_pin) /\ truthy_choice(security_question)
    /\ truthy(security_answer)

\* the required-field test of the handler, on the stripped values
all_fields_filled(first_name, last_name, address_line1, account_type, username, pin, confirm_pin, security_question, security_answer) ==
    /\ truthy(first_name) /\ truthy(last_name) /\ truthy(address_line1)
    /\ truthy_choice(account_type) /\ truthy(username) /\ truthy(pin)
    /\ truthy(confirm_pin) /\ truthy_choice(security_question)
    /\ truthy(security_answer)

\* not (not pin.isdigit() or len(pin) != 4)
pin_format_ok(pin) == isdigit(pin) /\ Len(pin) = 4

\* a pre-check that never finds the username
username_exists_never(username) == FALSE

\* cursor.execute("SELECT * ... WHERE username=?"); if cursor.fetchone()
username_exists(username) == select_where_username(username) # <<>>

\* the row the INSERT statement adds, a slip that inserts the typed username
new_row_raw_username(form) ==
    [ first_name        |-> strip(form.first_name),
      last_name         |-> strip(form.last_name),
      address_line1     |-> strip(form.address_line1),
      address_line2     |-> strip(form.address_line2),
      account_type      |-> form.account_type,
      username          |-> form.username,
      pin               |-> hash_pin(strip(form.pin)),
      security_question |-> form.security_question,
      security_answer   |-> strip(form.security_answer) ]

\* the row the INSERT statement adds
new_row(form) ==
    [ first_name        |-> strip(form.first_name),
      last_name         |-> strip(form.last_name),
      address_line1     |-> strip(form.address_line1),
      address_line2     |-> strip(form.address_line2),
      account_type      |-> form.account_type,
      username          |-> strip(form.username),
      pin               |-> hash_pin(strip(form.pin)),
      security_question |-> form.security_question,
      security_answer   |-> strip(form.security_answer) ]

\* the handler returns after messagebox.showerror: nothing else changes
create_account_rejected(text) ==
    [ created |-> FALSE, msg |-> text, accounts |-> accounts,
      window |-> window, login_withdrawn |-> login_withdrawn ]

\* what the handler leaves behind for a form: the messagebox it showed, the
\* table, the open window and the visibility of the login window
create_account_outcome(form) ==
    LET first_name        == strip(form.first_name)
        last_name         == strip(form.last_name)
        address_line1     == strip(form.address_line1)
        account_type      == form.account_type
        username          == strip(form.username)
        pin               == strip(form.pin)
        confirm_pin       == strip(form.confirm_pin)
        security_question == form.security_question
        security_answer   == strip(form.security_answer)
    IN  IF ~all_fields_filled(first_name, last_name, address_line1, account_type,
                              username, pin, confirm_pin, security_question,
                              security_answer)
        THEN create_account_rejected(MSG_FILL_ALL)
        ELSE IF ~pin_format_ok(pin)
        THEN create_account_rejected(MSG_PIN_FORMAT)
        ELSE IF pin # confirm_pin
        THEN create_account_rejected(MSG_PIN_MISMATCH)
        ELSE IF username_exists(username)
        THEN create_account_rejected(MSG_DUPLICATE)
        ELSE \* INSERT; showinfo; self.destroy(); self.parent.deiconify()
             [ created |-> TRUE, msg |-> MSG_CREATED,
               accounts |-> Append(accounts, new_row(form)),
               window |-> NoWindow, login_withdrawn |-> FALSE ]

create_account_button_click(form) ==
    /\ running
    /\ window.kind = "create"
    /\ LET out == create_account_outcome(form)
       IN  /\ out.created => Len(accounts) < MaxAccounts
           /\ accounts' = out.accounts
           /\ msg' = out.msg
           /\ window' = out.window
           /\ login_withdrawn' = out.login_withdrawn
    /\ UNCHANGED <<running, reset_log>>

---------------------------------------------------------------------------
(* LoginWindow.login *)

\* a query that forgets the pin column
credentials_match_username_only(username, pin) ==
    select_where_username(username) # <<>>

\* SELECT * FROM accounts WHERE username=? AND pin=? with hash_pin(pin);
\* account = cursor.fetchone(); if account
credentials_match(username, pin) ==
    select_where_username_pin(username, hash_pin(pin)) # <<>>

login_outcome(username_entry, pin_entry) ==
    LET username == strip(username_entry)
        pin      == strip(pin_entry)
    IN  IF ~(truthy(username) /\ truthy(pin))
        THEN [ok |-> FALSE, msg |-> MSG_LOGIN_BOTH]
        ELSE IF credentials_match(username, pin)
        THEN [ok |-> TRUE, msg |-> MSG_LOGIN_OK]
        ELSE [ok |-> FALSE, msg |-> MSG_LOGIN_INVALID]

login(username_entry, pin_entry) ==
    /\ running
    /\ ~login_withdrawn
    /\ LET out == login_outcome(username_entry, pin_entry)
       IN  /\ msg' = out.msg
           /\ IF out.ok
              THEN \* self.withdraw(); MainMenuWindow(self)
                   /\ login_withdrawn' = TRUE
                   /\ window' = [NoWindow EXCEPT !.kind = "menu"]
              ELSE UNCHANGED <<login_withdrawn, window>>
    /\ UNCHANGED <<accounts, running, reset_log>>

(* LoginWindow.open_create_account_window *)
open_create_account_window ==
    /\ running
    /\ ~login_withdrawn
    /\ login_withdrawn' = TRUE
    /\ window' = [NoWindow EXCEPT !.kind = "create"]
    /\ msg' = NO_MSG
    /\ UNCHANGED <<accounts, running, reset_log>>

(* MainMenuWindow.logout: self.parent.deiconify(); self.destroy() *)
logout ==
    /\ running
    /\ window.kind = "menu"
    /\ login_withdrawn' = FALSE
    /\ window' = NoWindow
    /\ msg' = NO_MSG
    /\ UNCHANGED <<accounts, running, reset_log>>

---------------------------------------------------------------------------
(* LoginWindow.forgot_pin *)

\* a handler that hands the username as typed, not stripped, to submit_answer
forgot_pin_outcome_raw_username(username_entry) ==
    LET username == strip(username_entry)
        result   == select_where_username(username)
    IN  IF ~truthy(username)
        THEN [found |-> FALSE, msg |-> MSG_ENTER_USER, window |-> window]
        ELSE IF result = <<>>
        THEN [found |-> FALSE, msg |-> MSG_NOT_FOUND, window |-> window]
        ELSE [found |-> TRUE, msg |-> NO_MSG,
              window |-> [kind |-> "security", username |-> username_entry,
                          question |-> Head(result).security_question]]

\* a handler without the empty-username test
forgot_pin_outcome_no_empty_test(username_entry) ==
    LET username == strip(username_entry)
        result   == select_where_username(username)
    IN  IF result = <<>>
        THEN [found |-> FALSE, msg |-> MSG_NOT_FOUND, window |-> window]
        ELSE [found |-> TRUE, msg |-> NO_MSG,
              window |-> [kind |-> "security", username |-> username,
                          question |-> Head(result).security_question]]

forgot_pin_outcome(username_entry) ==
    LET username == strip(username_entry)
        result   == select_where_username(username)
    IN  IF ~truthy(username)
        THEN [found |-> FALSE, msg |-> MSG_ENTER_USER, window |-> window]
        ELSE IF result = <<>>
        THEN [found |-> FALSE, msg |-> MSG_NOT_FOUND, window |-> window]
        ELSE [found |-> TRUE, msg |-> NO_MSG,
              window |-> [kind |-> "security", username |-> username,
                          question |-> Head(result).security_question]]

forgot_pin(username_entry) ==
    /\ running
    /\ ~login_withdrawn
    /\ LET out == forgot_pin_outcome(username_entry)
       IN  /\ msg' = out.msg
           /\ window' = out.window
           /\ login_withdrawn' = out.found
    /\ UNCHANGED <<accounts, running, reset_log>>

(* LoginWindow.submit_answer *)

\* str.lower() on the letters the model types
lower(s) ==
    [i \in 1..Len(s) |->
        CASE s[i] = "A" -> "a" [] s[i] = "B" -> "b" [] s[i] = "M" -> "m"
          [] s[i] = "P" -> "p" [] s[i] = "R" -> "r" [] OTHER -> s[i]]

\* a comparison that takes every answer
answer_matches_always(answer, correct_answer) == TRUE

\* a comparison that ignores case
answer_matches_ignore_case(answer, correct_answer) ==
    lower(answer) = lower(correct_answer)

\* if answer == correct_answer
answer_matches(answer, correct_answer) == answer = correct_answer

submit_answer_outcome(username, answer) ==
    LET rows == select_where_username(username)
    IN  IF rows = <<>>
        THEN \* cursor.fetchone() is None: [0] raises TypeError
             [raised |-> TRUE, correct |-> FALSE, msg |-> MSG_TYPE_ERROR]
        ELSE IF answer_matches(answer, Head(rows).security_answer)
        THEN [raised |-> FALSE, correct |-> TRUE, msg |-> MSG_ANSWER_OK]
        ELSE [raised |-> FALSE, correct |-> FALSE, msg |-> MSG_ANSWER_WRONG]

submit_answer(answer) ==
    /\ running
    /\ window.kind = "security"
    /\ LET out == submit_answer_outcome(window.username, answer)
       IN  /\ msg' = out.msg
           /\ IF out.correct
              THEN \* window.destroy(); ResetPinWindow(self, username)
                   window' = [kind |-> "reset", username |-> window.username,
                              question |-> ""]
              ELSE UNCHANGED window
    /\ UNCHANGED <<accounts, login_withdrawn, running, reset_log>>

(* LoginWindow.on_close_security: self.deiconify(); window.destroy() *)
on_close_security ==
    /\ running
    /\ window.kind = "security"
    /\ login_withdrawn' = FALSE
    /\ window' = NoWindow
    /\ msg' = NO_MSG
    /\ UNCHANGED <<accounts, running, reset_log>>

---------------------------------------------------------------------------
(* ResetPinWindow.reset_pin *)

\* a handler without the format test
reset_pin_outcome_no_format_test(new_pin_entry, confirm_pin_entry) ==
    LET new_pin     == strip(new_pin_entry)
        confirm_pin == strip(confirm_pin_entry)
    IN  IF ~(truthy(new_pin) /\ truthy(confirm_pin))
        THEN [done |-> FALSE, msg |-> MSG_RESET_BOTH, accounts |-> accounts]
        ELSE IF new_pin # confirm_pin
        THEN [done |-> FALSE, msg |-> MSG_PIN_MISMATCH, accounts |-> accounts]
        ELSE [done |-> TRUE, msg |-> MSG_RESET_OK,
              accounts |-> update_pin(hash_pin(new_pin), window.username)]

reset_pin_outcome(new_pin_entry, confirm_pin_entry) ==
    LET new_pin     == strip(new_pin_entry)
        confirm_pin == strip(confirm_pin_entry)
    IN  IF ~(truthy(new_pin) /\ truthy(confirm_pin))
        THEN [done |-> FALSE, msg |-> MSG_RESET_BOTH, accounts |-> accounts]
        ELSE IF new_pin # confirm_pin
        THEN [done |-> FALSE, msg |-> MSG_PIN_MISMATCH, accounts |-> accounts]
        ELSE IF ~pin_format_ok(new_pin)
        THEN [done |-> FALSE, msg |-> MSG_PIN_FORMAT, accounts |-> accounts]
        ELSE [done |-> TRUE, msg |-> MSG_RESET_OK,
              accounts |-> update_pin(hash_pin(new_pin), window.username)]

reset_pin(new_pin_entry, confirm_pin_entry) ==
    /\ running
    /\ window.kind = "reset"
    /\ LET out == reset_pin_outcome(new_pin_entry, confirm_pin_entry)
       IN  /\ accounts' = out.accounts
           /\ msg' = out.msg
           /\ IF out.done
              THEN \* self.destroy(); self.parent.deiconify()
                   /\ window' = NoWindow
                   /\ login_withdrawn' = FALSE
                   /\ reset_log' =
                        [reset_log EXCEPT ![window.username] =
                            [reset |-> TRUE,
                             old   |-> { r.pin : r \in
                                          { accounts[i] : i \in
                                             { j \in 1..Len(accounts) :
                                                 accounts[j].username = window.username } } },
                             new   |-> strip(new_pin_entry)]]
              ELSE UNCHANGED <<window, login_withdrawn, reset_log>>
    /\ UNCHANGED running

---------------------------------------------------------------------------
(* Leaving: the Exit buttons and the window manager's close button *)

\* exit_program, the Exit button of LoginWindow and CreateAccountWindow:
\* sys.exit() ends the process
exit_program ==
    /\ running
    /\ \/ ~login_withdrawn
       \/ window.kind = "create"
    /\ running' = FALSE
    /\ window' = NoWindow
    /\ login_withdrawn' = TRUE
    /\ msg' = NO_MSG
    /\ UNCHANGED <<accounts, reset_log>>

\* closing CreateAccountWindow, ResetPinWindow or MainMenuWindow with the
\* window manager: no WM_DELETE_WINDOW handler is set, the window is destroyed
\* and the login window stays withdrawn
close_child_window ==
    /\ running
    /\ window.kind \in { "create", "reset", "menu" }
    /\ window' = NoWindow
    /\ msg' = NO_MSG
    /\ UNCHANGED <<accounts, login_withdrawn, running, reset_log>>

---------------------------------------------------------------------------
(* The state machine *)

Init ==
    /\ accounts = << >>
    /\ login_withdrawn = FALSE
    /\ window = NoWindow
    /\ running = TRUE
    /\ msg = NO_MSG
    /\ reset_log = [u \in StoredUsernames |-> NoReset]

Next ==
    \/ \E u \in UserInputs, p \in PinInputs : login(u, p)
    \/ open_create_account_window
    \/ \E form \in CreateForms : create_account_button_click(form)
    \/ \E u \in UserInputs : forgot_pin(u)
    \/ \E a \in AnswerInputs : submit_answer(a)
    \/ on_close_security
    \/ \E pc \in PinPairs : reset_pin(pc[1], pc[2])
    \/ logout
    \/ exit_program
    \/ close_child_window

Spec == Init /\ [][Next]_vars

(* The flow states of the form controller *)
LoggedOut == running /\ ~login_withdrawn
Creating == running /\ window.kind = "create"
AwaitingSecurityAnswer == running /\ window.kind = "security"
Resetting == running /\ window.kind = "reset"
LoggedIn == running /\ window.kind = "menu"

TypeOK ==
    /\ Len(accounts) <= MaxAccounts
    /\ login_withdrawn \in BOOLEAN
    /\ running \in BOOLEAN
    /\ window.kind \in { "none", "create", "security", "reset", "menu" }
    /\ ~login_withdrawn => window = NoWindow
    /\ \A i \in 1..Len(accounts) :
          /\ accounts[i].account_type \in ACCOUNT_TYPES
          /\ accounts[i].security_question \in SECURITY_QUESTIONS
          /\ accounts[i].username \in StoredUsernames
    /\ window.kind \in { "security", "reset" } => window.username \in StoredUsernames


---------------------------------------------------------------------------
(* Vocabulary of the properties *)

\* some row of the table holds this username
InStore(username) ==
    \E i \in 1..Len(accounts) : accounts[i].username = username

\* some row of the table holds this username and this value in its pin column
InStoreWithPin(username, pin) ==
    \E i \in 1..Len(accounts) :
        accounts[i].username = username /\ accounts[i].pin = pin

\* the required fields of a form, after trimming, are all non-empty
RequiredFilled(form) ==
    /\ strip(form.first_name) # S_empty
    /\ strip(form.last_name) # S_empty
    /\ strip(form.address_line1) # S_empty
    /\ form.account_type # ""
    /\ strip(form.username) # S_empty
    /\ strip(form.pin) # S_empty
    /\ strip(form.confirm_pin) # S_empty
    /\ form.security_question # ""
    /\ strip(form.security_answer) # S_empty

\* a create-account submission left the flow in Creating / took it to LoggedOut
StaysCreating(out) == out.window.kind = "create" /\ out.login_withdrawn
BackToLoggedOut(out) == out.window = NoWindow /\ ~out.login_withdrawn

\* the plaintext PIN strings of four decimal digits that the model types
ValidPins == { p \in PinInputs : MatchesPinRegex(p) }

---------------------------------------------------------------------------
(* C1: login *)

\* C1 as stated: a login submission with username u and PIN p, as typed,
\* moves LoggedOut to LoggedIn iff some row has username u and pin column
\* hash_pin(p); otherwise the flow stays LoggedOut, an error is shown and
\* the table is unchanged.
C1_AsStated ==
    [][ LoggedOut => \A u \in UserInputs, p \in PinInputs :
          login(u, p) =>
            IF InStoreWithPin(u, hash_pin(p))
            THEN LoggedIn'
            ELSE /\ LoggedOut'
                 /\ msg' \in { MSG_LOGIN_BOTH, MSG_LOGIN_INVALID }
                 /\ accounts' = accounts ]_vars

\* C1 (amended): a login submission with username u and PIN p moves
\* LoggedOut to LoggedIn iff some row has username strip(u) and pin column
\* hash_pin(strip(p)), the typed values with surrounding whitespace removed;
\* otherwise the flow stays LoggedOut, an error is shown and the table is
\* unchanged.
C1_LoginIffCredentials ==
    [][ LoggedOut => \A u \in UserInputs, p \in PinInputs :
          login(u, p) =>
            IF InStoreWithPin(strip(u), hash_pin(strip(p)))
            THEN /\ LoggedIn'
                 /\ accounts' = accounts
            ELSE /\ LoggedOut'
                 /\ msg' \in { MSG_LOGIN_BOTH, MSG_LOGIN_INVALID }
                 /\ accounts' = accounts ]_vars

\* a login has succeeded against a table that holds alice and bob
C1_Witness ==
    /\ LoggedIn
    /\ msg = MSG_LOGIN_OK
    /\ InStore(S_alice) /\ InStore(S_bob)

---------------------------------------------------------------------------
(* C2: username uniqueness *)

\* C2: in every reachable state no two rows of the table have the same
\* username.
C2_UniqueUsernames ==
    \A i, j \in 1..Len(accounts) :
        accounts[i].username = accounts[j].username => i = j

\* two accounts exist, one of them was reset, and a further create-account
\* submission has just been turned down as a duplicate
C2_Witness ==
    /\ Len(accounts) = 2
    /\ \E u \in StoredUsernames : reset_log[u].reset
    /\ Creating
    /\ msg = MSG_DUPLICATE

---------------------------------------------------------------------------
(* C3: duplicate username at creation *)

\* C3 as stated: a create-account submission whose username is already in
\* the table shows "Username already exists" and leaves the table unchanged,
\* whatever the other fields hold.
C3_AsStated ==
    Creating =>
      \A form \in CreateForms :
          InStore(form.username) =>
            LET out == create_account_outcome(form)
            IN  /\ out.msg = MSG_DUPLICATE
                /\ out.accounts = accounts

\* C3 (amended): a create-account submission whose trimmed username is
\* already in the table always fails: the flow stays in Creating and the table
\* is unchanged.  The error is "Username already exists" when the required
\* fields are filled and the PIN is four decimal digits equal to its
\* confirmation; the earlier checks win otherwise: "Please fill in all
\* fields" with an empty required field, else "PIN must be a 4-digit number"
\* with a PIN that is not four characters long, else "PINs do not match" with
\* a four-decimal-digit PIN that differs from its confirmation.
C3_DuplicateAlwaysFails ==
    Creating =>
      \A form \in CreateForms :
          InStore(strip(form.username)) =>
            LET out     == create_account_outcome(form)
                pin     == strip(form.pin)
                confirm == strip(form.confirm_pin)
            IN  /\ out.accounts = accounts
                /\ StaysCreating(out)
                /\ out.msg \in { MSG_FILL_ALL, MSG_PIN_FORMAT, MSG_PIN_MISMATCH,
                                 MSG_DUPLICATE }
                /\ ~RequiredFilled(form) => out.msg = MSG_FILL_ALL
                /\ (RequiredFilled(form) /\ Len(pin) # 4) => out.msg = MSG_PIN_FORMAT
                /\ (RequiredFilled(form) /\ MatchesPinRegex(pin) /\ pin # confirm)
                      => out.msg = MSG_PIN_MISMATCH
                /\ (RequiredFilled(form) /\ MatchesPinRegex(pin) /\ pin = confirm)
                      => out.msg = MSG_DUPLICATE

\* a submission for an existing username was turned down as a duplicate
C3_Witness ==
    /\ Creating
    /\ msg = MSG_DUPLICATE
    /\ InStore(S_alice)

---------------------------------------------------------------------------
(* C4: PIN format *)

\* C4: at account creation and at PIN reset, a submission whose PIN (trimmed)
\* does not match ^[0-9]{4}$ is rejected and writes nothing to the table.
C4_OnlyFourAsciiDigits ==
    [][ /\ Creating => \A form \in CreateForms :
             (create_account_button_click(form) /\ ~MatchesPinRegex(strip(form.pin)))
                => (accounts' = accounts /\ Creating')
        /\ Resetting => \A pc \in PinPairs :
             (reset_pin(pc[1], pc[2]) /\ ~MatchesPinRegex(strip(pc[1])))
                => (accounts' = accounts /\ Resetting') ]_vars

---------------------------------------------------------------------------
(* C5: login after a reset *)

\* C5: once username u was reset from old PIN p to new PIN q, p # q, and
\* until u is reset again, a login with (u, p) fails and a login with (u, q)
\* succeeds.  reset_log[u] holds the digest the last reset of u replaced and
\* the PIN it set.
C5_ResetSwitchesPin ==
    [][ LoggedOut => \A u \in StoredUsernames, p \in PinInputs :
          (login(u, p) /\ reset_log[u].reset) =>
            /\ p = reset_log[u].new => (LoggedIn' /\ msg' = MSG_LOGIN_OK)
            /\ (p # reset_log[u].new /\ hash_pin(p) \in reset_log[u].old)
                  => (LoggedOut' /\ msg' = MSG_LOGIN_INVALID) ]_vars

\* alice was reset from 1111 to 2222, bob was reset after her, and a login
\* has succeeded since
C5_Witness ==
    /\ reset_log[S_alice].reset
    /\ reset_log[S_alice].old = { D_1111 }
    /\ reset_log[S_alice].new = S_2222
    /\ reset_log[S_bob].reset
    /\ reset_log[S_bob].new = S_1111
    /\ LoggedIn

---------------------------------------------------------------------------
(* C6: stored digests *)

\* C6: in every reachable state the pin column of every row is the digest of
\* some 4-digit numeric PIN and is not itself a plaintext 4-digit PIN.
C6_DigestOfValidPin ==
    \A i \in 1..Len(accounts) :
        /\ \E p \in ValidPins : accounts[i].pin = hash_pin(p)
        /\ ~MatchesPinRegex(accounts[i].pin)

---------------------------------------------------------------------------
(* C7: selectors left at the placeholder *)

\* C7: a create-account submission with the account type or the security
\* question left at "-- Select --" is rejected, and no row ever holds the
\* placeholder in account_type or security_question.
C7_NoPlaceholderStored ==
    [][ /\ Creating => \A form \in CreateForms :
             ( /\ create_account_button_click(form)
               /\ \/ form.account_type = PLACEHOLDER
                  \/ form.security_question = PLACEHOLDER )
                => (accounts' = accounts /\ Creating')
        /\ \A i \in 1..Len(accounts') :
              /\ accounts'[i].account_type # PLACEHOLDER
              /\ accounts'[i].security_question # PLACEHOLDER ]_vars

---------------------------------------------------------------------------
(* C8: the security answer *)

\* C8: a submitted security answer moves AwaitingSecurityAnswer to Resetting
\* iff it equals, character for character, the answer stored for the
\* username of the recovery; otherwise the flow stays in
\* AwaitingSecurityAnswer with "Incorrect answer to security question".
C8_AnswerExactMatch ==
    [][ AwaitingSecurityAnswer => \A a \in AnswerInputs :
          submit_answer(a) =>
            IF \E i \in 1..Len(accounts) :
                 /\ accounts[i].username = window.username
                 /\ accounts[i].security_answer = a
            THEN /\ Resetting'
                 /\ window'.username = window.username
            ELSE /\ AwaitingSecurityAnswer'
                 /\ window' = window
                 /\ msg' = MSG_ANSWER_WRONG ]_vars

\* alice's recovery: her stored answer is "Blue" and a submitted answer was
\* just turned down
C8_Witness ==
    /\ AwaitingSecurityAnswer
    /\ window.username = S_alice
    /\ InStore(S_alice)
    /\ \A i \in 1..Len(accounts) :
          accounts[i].username = S_alice => accounts[i].security_answer = S_Blue
    /\ msg = MSG_ANSWER_WRONG

---------------------------------------------------------------------------
(* C9: the create-account submission *)

\* C9: in Creating, a create-account submission returns to LoggedOut and adds exactly one
\* row, with the PIN replaced by its digest, iff the required fields are
\* non-empty, the PIN matches ^[0-9]{4}$, PIN and confirmation are equal and
\* the username is not in the table (all after trimming); otherwise the flow
\* stays in Creating, the table is unchanged and the error is that of a
\* failed check.
C9_CreateIffAllChecksPass ==
    [][ Creating => \A form \in CreateForms :
          create_account_button_click(form) =>
            LET pin      == strip(form.pin)
                confirm  == strip(form.confirm_pin)
                username == strip(form.username)
            IN  IF /\ RequiredFilled(form)
                   /\ MatchesPinRegex(pin)
                   /\ pin = confirm
                   /\ ~InStore(username)
                THEN /\ LoggedOut'
                     /\ Len(accounts') = Len(accounts) + 1
                     /\ SubSeq(accounts', 1, Len(accounts)) = accounts
                     /\ accounts'[Len(accounts')].username = username
                     /\ accounts'[Len(accounts')].pin = hash_pin(pin)
                ELSE /\ Creating'
                     /\ accounts' = accounts
                     /\ msg' \in
                          (IF RequiredFilled(form) THEN {} ELSE { MSG_FILL_ALL })
                          \cup (IF MatchesPinRegex(pin) THEN {} ELSE { MSG_PIN_FORMAT })
                          \cup (IF pin = confirm THEN {} ELSE { MSG_PIN_MISMATCH })
                          \cup (IF InStore(username) THEN { MSG_DUPLICATE } ELSE {})
      ]_vars

---------------------------------------------------------------------------
(* C10: Forgot PIN *)

\* C10 as stated: Forgot PIN moves LoggedOut to AwaitingSecurityAnswer iff
\* the entered username is in the table; for every other entered username,
\* the empty one included, the flow stays LoggedOut with "Username not
\* found".
C10_AsStated ==
    [][ LoggedOut => \A u \in UserInputs :
          forgot_pin(u) =>
            IF InStore(u)
            THEN AwaitingSecurityAnswer'
            ELSE /\ LoggedOut'
                 /\ msg' = MSG_NOT_FOUND ]_vars

\* C10 (amended): Forgot PIN moves LoggedOut to AwaitingSecurityAnswer, for
\* the trimmed username, iff the entered username with surrounding whitespace
\* removed is in the table; otherwise the flow stays LoggedOut, with "Please
\* enter your username" when the trimmed username is empty and "Username not
\* found" for every other username.
C10_ForgotPinIffUserExists ==
    [][ LoggedOut => \A u \in UserInputs :
          forgot_pin(u) =>
            IF InStore(strip(u))
            THEN /\ AwaitingSecurityAnswer'
                 /\ window'.username = strip(u)
            ELSE /\ LoggedOut'
                 /\ msg' = IF strip(u) = S_empty
                           THEN MSG_ENTER_USER
                           ELSE MSG_NOT_FOUND ]_vars

\* Forgot PIN was pressed with no username while accounts exist
C10_Witness ==
    /\ LoggedOut
    /\ msg = MSG_ENTER_USER
    /\ InStore(S_alice)

---------------------------------------------------------------------------
(* C11: the outcome of a reset-PIN submission *)

\* C11: a reset-PIN submission takes Resetting to LoggedOut and overwrites the
\* stored digest of the username being reset if and only if both PIN fields
\* (trimmed) are non-empty, equal to each other and four decimal digits;
\* otherwise the flow stays in Resetting and the table is unchanged.
C11_ResetIffPinsValid ==
    [][ Resetting => \A pc \in PinPairs :
          reset_pin(pc[1], pc[2]) =>
            IF /\ strip(pc[1]) # S_empty
               /\ strip(pc[2]) # S_empty
               /\ strip(pc[1]) = strip(pc[2])
               /\ MatchesPinRegex(strip(pc[1]))
            THEN /\ LoggedOut'
                 /\ \A i \in 1..Len(accounts) :
                      accounts[i].username = window.username
                        => accounts'[i].pin = hash_pin(strip(pc[1]))
            ELSE /\ Resetting'
                 /\ accounts' = accounts ]_vars

---------------------------------------------------------------------------
(* C12: what a step may change in the table *)

\* C12: in every step, no row is removed and no column of an existing row
\* other than pin changes; the pin of a row changes only in a successful
\* reset-PIN submission for that row's username, and that step leaves the
\* rows of every other username as they were.
C12_RecordsFrame ==
    [][ /\ Len(accounts') >= Len(accounts)
        /\ \A i \in 1..Len(accounts) :
             /\ accounts'[i] = [accounts[i] EXCEPT !.pin = accounts'[i].pin]
             /\ accounts'[i].pin # accounts[i].pin =>
                  /\ Resetting
                  /\ window.username = accounts[i].username
                  /\ LoggedOut'
                  /\ msg' = MSG_RESET_OK
                  /\ \A j \in 1..Len(accounts) :
                       accounts[j].username # accounts[i].username
                          => accounts'[j] = accounts[j] ]_vars

\* alice's digest was replaced by a reset while bob's record, never reset,
\* is in the table
C12_Witness ==
    /\ LoggedOut
    /\ msg = MSG_RESET_OK
    /\ Len(accounts) = 2
    /\ InStore(S_bob)
    /\ ~reset_log[S_bob].reset
    /\ reset_log[S_alice].reset
    /\ reset_log[S_alice].old # { hash_pin(reset_log[S_alice].new) }

---------------------------------------------------------------------------
(* C13: required fields of stored records *)

\* the free-text fields a record must have
RequiredTextFields ==
    { "first_name", "last_name", "address_line1", "username",
      "security_answer" }

\* C13: every row of the table has first_name, last_name, address_line1,
\* username and security_answer that are non-empty and not made of whitespace
\* only (and no other column but address_line2 is empty); a create-account
\* submission in which one of these fields is empty or whitespace only is
\* rejected with the missing-field message and adds no row.
C13_RequiredFieldsStored ==
    /\ \A i \in 1..Len(accounts) :
         /\ \A f \in RequiredTextFields : strip(accounts[i][f]) # S_empty
         /\ accounts[i].account_type # ""
         /\ accounts[i].security_question # ""
         /\ accounts[i].pin # S_empty
    /\ Creating => \A form \in CreateForms :
         (\E f \in RequiredTextFields : strip(form[f]) = S_empty) =>
            LET out == create_account_outcome(form)
            IN  /\ ~out.created
                /\ out.msg = MSG_FILL_ALL
                /\ out.accounts = accounts
                /\ StaysCreating(out)

\* a record with an empty address_line2 is stored and a later submission was
\* turned down for a missing field
C13_Witness ==
    /\ Creating
    /\ msg = MSG_FILL_ALL
    /\ \E i \in 1..Len(accounts) : accounts[i].address_line2 = S_empty

---------------------------------------------------------------------------
(* C14: no unhandled exception *)

\* the texts of the error boxes the handlers show
ErrorMessages ==
    { MSG_FILL_ALL, MSG_PIN_FORMAT, MSG_PIN_MISMATCH, MSG_DUPLICATE,
      MSG_RESET_BOTH, MSG_LOGIN_BOTH, MSG_LOGIN_INVALID, MSG_ENTER_USER,
      MSG_NOT_FOUND, MSG_ANSWER_WRONG }

\* C14: no handler raises: while a security answer can be submitted for
\* username u, a row of u is in the table, so for every answer the lookup of
\* the stored answer in submit_answer finds a row and never raises TypeError;
\* after every error box the application is still running.
C14_NoUnhandledException ==
    /\ msg # MSG_TYPE_ERROR
    /\ AwaitingSecurityAnswer =>
         /\ InStore(window.username)
         /\ \A a \in AnswerInputs :
              ~submit_answer_outcome(window.username, a).raised
    /\ msg \in ErrorMessages => running

\* a wrong answer was submitted for bob while two records are stored, and the
\* security question window is still open
C14_Witness ==
    /\ AwaitingSecurityAnswer
    /\ window.username = S_bob
    /\ msg = MSG_ANSWER_WRONG
    /\ Len(accounts) = 2

---------------------------------------------------------------------------
(* C15: the PIN checks at Create and at Reset *)

\* the kind of outcome a message box of Create Account or Reset PIN stands for
OutcomeKind(text) ==
    CASE text \in { MSG_FILL_ALL, MSG_RESET_BOTH } -> "MissingField"
      [] text = MSG_PIN_FORMAT                    -> "InvalidPinFormat"
      [] text = MSG_PIN_MISMATCH                  -> "PinMismatch"
      [] text \in { MSG_CREATED, MSG_RESET_OK }   -> "Accepted"
      [] OTHER                                    -> "Other"

\* the forms whose fields other than the PINs are valid and whose username,
\* trimmed, is non-empty and not in the table
FreshValidForms ==
    { form \in BaseForms :
        strip(form.username) # S_empty /\ ~InStore(strip(form.username)) }

\* C15 as stated: for every pair (PIN, confirmation), a Create submission with
\* the other fields valid and the username unused and a Reset submission have
\* the same outcome: both accept, or both reject with the same error kind.
C15_AsStated ==
    (Creating \/ Resetting) => \A form \in FreshValidForms :
        OutcomeKind(create_account_outcome(form).msg)
            = OutcomeKind(reset_pin_outcome(form.pin, form.confirm_pin).msg)

\* C15: for every pair (PIN, confirmation), a Create submission with the other
\* fields valid and the username unused accepts exactly when a Reset
\* submission accepts, and when they reject the error kind is the same except
\* for a pair whose PIN fails the format check and also differs from the
\* confirmation (both trimmed and non-empty): Create reports InvalidPinFormat
\* and Reset reports PinMismatch.
C15_SameAcceptance ==
    (Creating \/ Resetting) => \A form \in FreshValidForms :
        LET c   == create_account_outcome(form)
            r   == reset_pin_outcome(form.pin, form.confirm_pin)
            pin == strip(form.pin)
            confirm_pin == strip(form.confirm_pin)
        IN  /\ c.created <=> r.done
            /\ c.created <=> OutcomeKind(c.msg) = "Accepted"
            /\ r.done <=> OutcomeKind(r.msg) = "Accepted"
            /\ IF /\ pin # S_empty /\ confirm_pin # S_empty
                  /\ pin # confirm_pin /\ ~pin_format_ok(pin)
               THEN /\ OutcomeKind(c.msg) = "InvalidPinFormat"
                    /\ OutcomeKind(r.msg) = "PinMismatch"
               ELSE OutcomeKind(c.msg) = OutcomeKind(r.msg)

\* a Reset submission was turned down for the PIN's format while the username
\* bob is unused
C15_Witness ==
    /\ Resetting
    /\ msg = MSG_PIN_FORMAT
    /\ ~InStore(S_bob)

---------------------------------------------------------------------------
(* C16: a reset follows a verified answer *)

\* C16: the flow enters Resetting only by a submit_answer step from
\* AwaitingSecurityAnswer whose answer equals the stored answer of the
\* username captured by forgot_pin; the username of the security question
\* window and of the reset window never changes while the recovery flow
\* lasts; and the pin of a row changes only in Resetting for the username of
\* the reset window.  Hence a digest of u is overwritten only after u's
\* stored answer was submitted in the same recovery flow.
C16_ResetOnlyAfterCorrectAnswer ==
    [][ /\ (window'.kind = "reset" /\ window.kind # "reset") =>
             /\ AwaitingSecurityAnswer
             /\ window'.username = window.username
             /\ InStore(window.username)
             /\ \E a \in AnswerInputs : submit_answer(a)
             /\ \A a \in AnswerInputs :
                  submit_answer(a) =>
                    a = Head(select_where_username(window.username)).security_answer
        /\ (window'.kind = "security" /\ window.kind # "security") =>
             /\ LoggedOut
             /\ \E u \in UserInputs :
                  forgot_pin(u) /\ window'.username = strip(u)
        /\ (window.kind \in { "security", "reset" }
              /\ window'.kind \in { "security", "reset" }) =>
             /\ window'.username = window.username
             /\ window.kind = "reset" => window'.kind = "reset"
        /\ \A i \in 1..Len(accounts) :
             /\ accounts'[i].username = accounts[i].username
             /\ accounts'[i].security_answer = accounts[i].security_answer
             /\ accounts'[i].pin # accounts[i].pin =>
                  (Resetting /\ window.username = accounts[i].username) ]_vars

\* bob's digest was overwritten by a reset while alice's record, never reset,
\* is in the table
C16_Witness ==
    /\ LoggedOut
    /\ msg = MSG_RESET_OK
    /\ reset_log[S_bob].reset
    /\ InStore(S_alice)
    /\ ~reset_log[S_alice].reset

---------------------------------------------------------------------------
(* C17: the reset window's username is stored *)

\* the positions of the rows that hold this username
RowsOf(username) ==
    { i \in 1..Len(accounts) : accounts[i].username = username }

\* C17: while the flow is in Resetting for username u, exactly one row of the
\* table holds u; so the UPDATE of a successful reset-PIN submission never
\* matches zero rows: it writes the new digest to that one row and leaves
\* every other row as it was.
C17_ResetTargetsOneRecord ==
    Resetting =>
        /\ Cardinality(RowsOf(window.username)) = 1
        /\ \A pc \in PinPairs :
             LET out == reset_pin_outcome(pc[1], pc[2])
             IN  out.done =>
                   /\ Len(out.accounts) = Len(accounts)
                   /\ \A i \in 1..Len(accounts) :
                        out.accounts[i] =
                          IF i \in RowsOf(window.username)
                          THEN [accounts[i] EXCEPT
                                  !.pin = hash_pin(strip(pc[1]))]
                          ELSE accounts[i]

\* a second recovery of bob's PIN reached the reset window, with two records
\* in the table
C17_Witness ==
    /\ Resetting
    /\ window.username = S_bob
    /\ reset_log[S_bob].reset
    /\ Len(accounts) = 2

---------------------------------------------------------------------------
(* C18: one screen at a time *)

\* C18: while the application runs exactly one screen is active: the login
\* window is shown exactly when no other window is open, and it is hidden in
\* Creating, AwaitingSecurityAnswer, Resetting and LoggedIn; so the handlers
\* of the login screen (login, create account, forgot PIN) run only in
\* LoggedOut; and the login window is shown again by a successful create, a
\* successful reset, closing the security question window, and logout.
C18_OneScreenActive ==
    [][ /\ running' => (login_withdrawn' <=> window'.kind # "none")
        /\ (Creating' \/ AwaitingSecurityAnswer' \/ Resetting' \/ LoggedIn')
              => login_withdrawn'
        /\ ( \/ open_create_account_window
             \/ \E u \in UserInputs : forgot_pin(u)
             \/ \E u \in UserInputs, p \in PinInputs : login(u, p) )
              => LoggedOut
        /\ (Creating /\ msg' = MSG_CREATED) => LoggedOut'
        /\ (Resetting /\ msg' = MSG_RESET_OK) => LoggedOut'
        /\ on_close_security => LoggedOut'
        /\ logout => LoggedOut' ]_vars

===========================================================================
